---- MODULE Spec2Model ----
(***************************************************************************)
(* A model of my_application/streaming_api.py: the Redis-backed message    *)
(* log (got_status), the streaming worker, the consumer loop of            *)
(* spawn_worker_and_subscribe, the replicator and the cleaner.             *)
(*                                                                         *)
(* Every Redis round trip is one atomic step; everything a function does   *)
(* between two round trips is local to it and belongs to the step of the   *)
(* round trip that precedes it.                                            *)
(***************************************************************************)
EXTENDS Integers, Sequences, FiniteSets, TLC

(* ---- bounds of the model ---------------------------------------------- *)
\* The id counter is not incremented beyond MaxId.
MaxId == 2
\* A worker is started with backlog in -MaxAbsBacklog..MaxAbsBacklog.
MaxAbsBacklog == 1
\* The worker's tossed counter is not incremented beyond MaxTossed.
MaxTossed == 2

(* ---- program constants (scaled) --------------------------------------- *)
\* Lines 35-37 give 100, 150000 and 5 * CHUNKSIZE; the model keeps their
\* roles with small values: a chunk shorter than the log can get, an index
\* that can outgrow MAX_BACKLOG, a channel that two payloads and a heartbeat
\* fill.
CHUNKSIZE == 2
MAX_BACKLOG == 1
MAX_OUTGOING_BACKLOG == 3

Producers == {"p1", "p2"}
Stores == {"src", "dst"}
Ids == 1..MaxId

(* ---- Python and Redis values ------------------------------------------ *)
\* Python's None, which is also what GET returns for a missing key.
None == [t |-> "None"]
\* json.dumps of a status dict that carries its id.  created_at is a wall
\* clock reading and the other fields are the caller's; this file reads
\* neither back for the kinds of subscription modelled here, and they are
\* left out.
dumps(status) == [t |-> "json", id |-> status.id]
\* json.loads: the dict of a dumped status; anything else is a ValueError.
loads(data) ==
    IF data.t = "json" THEN [id |-> data.id]
    ELSE [t |-> "ValueError"]
\* What SET stores for a value: redis-py sends str(value), so None is stored
\* as the four characters 'None'; a string is stored as it is.
encode(value) ==
    IF value.t = "None" THEN [t |-> "str", s |-> "None"]
    ELSE value

Max(S) == CHOOSE x \in S : \A y \in S : y <= x

VARIABLES
    seq_id,     \* ID_KEY of each store: the id counter
    queue,      \* QUEUE of each store: the sorted set of ids (the Log Index)
    message,    \* STATUS_MESSAGE % id of each store (the Message Store)
    ppc,        \* where each producer is in got_status
    pid,        \* the id a producer's call obtained from INCR
    returned,   \* history: the ids that calls of got_status have returned
    posted,     \* history: per returned id, the payload its call dumped
    live,       \* history: the ids committed after the worker had started
    \* ---- worker(hostinfo, backlog, which, content, subscriber) ----
    wpc,        \* where the worker is
    which,      \* its argument which
    backlog,    \* its argument backlog
    now,        \* its scan position
    end,        \* 'inf', or the counter read at the start
    sent,       \* the loop flag sent
    tossed,
    tossed_notified,
    last_sent_keepalive,
    found_match,
    ids,        \* the result of the last ZRANGEBYSCORE
    pipeline,   \* the RPUSH commands buffered in the pipeline
    results,    \* the results of the commands the pipeline has executed
    expired,    \* whether time.time() > keepalive, the keepalive deadline
    chan,       \* the list named subscriber (the outgoing channel)
    cpc,        \* where the consumer loop of spawn_worker_and_subscribe is
    gone,       \* history: "no" until the channel is deleted from outside,
                \* then "deleted" until the worker starts a pipeline of
                \* RPUSHes, "trip" while that one runs, "after" from its end
    \* ---- history of the worker ----
    evaluated,  \* the ids whose status the worker has passed to criteria
    pushed,     \* the ids whose payload the worker has pushed
    repushed,   \* the ids whose payload it has pushed more than once
    tossedSince,\* the ids tossed since the last limit notice
    lastNotice, \* the last limit notice: its count n, how many ids were
                \* tossed since the notice before it, and whether it is the
                \* first one
    \* ---- replicator(source_conn, dest_conn) ----
    rpc,        \* where the replicator is
    then,       \* the source counter it has replicated up to
    rnow,       \* its local now: the source counter it read last
    sleep,      \* its poll interval, in milliseconds
    rstat,      \* the statuses of then+1..now it fetched and has yet to ingest
    replicated, \* history: the ids it has passed to got_status
    rgot,       \* history: per such id, what the source's GET returned
    \* ---- cleaner(conn) ----
    kpc         \* where the cleaner is

ingestVars == <<seq_id, queue, message, ppc, pid, returned, posted, live>>
workerVars == <<wpc, which, backlog, now, end, sent, tossed, tossed_notified,
                last_sent_keepalive, found_match, ids, pipeline, results,
                expired, evaluated, pushed, repushed, tossedSince, lastNotice>>
chanVars == <<chan, cpc, gone>>
replVars == <<rpc, then, rnow, sleep, rstat, replicated, rgot>>
vars == <<ingestVars, workerVars, chanVars, replVars, kpc>>

(* ---- got_status -------------------------------------------------------- *)
\* A variant of INCR that loses the update of a counter that is not 0.
incr_lost(c) == IF c = 0 THEN c + 1 ELSE c

\* INCR: the new value of the counter, which is also the value returned.
incr(c) == c + 1

\* ZADD QUEUE id id
zadd(q, id) == q \cup {id}

\* A variant of SET that stores nothing.
set_dropped(m, id, dumped) == m

\* SET STATUS_MESSAGE % id  dumped
set(m, id, dumped) == [m EXCEPT ![id] = encode(dumped)]

\* Lines 54-58 of got_status(conn, status): the call starts and takes its
\* id from the counter of the source store.
Post_Incr(p) ==
    /\ ppc[p] = "idle"
    /\ seq_id["src"] < MaxId
    /\ seq_id' = [seq_id EXCEPT !["src"] = incr(seq_id["src"])]
    /\ pid' = [pid EXCEPT ![p] = seq_id'["src"]]
    /\ ppc' = [ppc EXCEPT ![p] = "commit"]
    /\ UNCHANGED <<queue, message, returned, posted, live, workerVars,
                   chanVars, replVars, kpc>>

\* Lines 60-64: the MULTI/EXEC pipeline of ZADD and SET, and the return.
Post_Commit(p) ==
    LET id == pid[p]
        dumped == dumps([id |-> id])
    IN  /\ ppc[p] = "commit"
        /\ queue' = [queue EXCEPT !["src"] = zadd(queue["src"], id)]
        /\ message' = [message EXCEPT
                         !["src"] = set(message["src"], id, dumped)]
        /\ returned' = returned \cup {id}
        /\ posted' = [posted EXCEPT ![id] = dumped]
        /\ live' = IF wpc # "start" THEN live \cup {id} ELSE live
        /\ ppc' = [ppc EXCEPT ![p] = "idle"]
        \* the call's locals are gone when it has returned
        /\ pid' = [pid EXCEPT ![p] = 0]
        /\ UNCHANGED <<seq_id, workerVars, chanVars, replVars, kpc>>

(* ---- worker ------------------------------------------------------------ *)
Kinds == {"firehose", "gardenhose", "unknown"}

\* A variant of lines 96-117 in which every kind gets a criteria.
has_criteria_any(w) == TRUE

\* Lines 96-117: criteria stays None for a kind that is none of the listed
\* ones.  Of the listed kinds the model keeps firehose, which matches every
\* status, and gardenhose, which matches when random.randrange(10) is 0:
\* rnd is that draw.
has_criteria(w) == w \in {"firehose", "gardenhose"}
criteria(w, status, rnd) == IF w = "firehose" THEN TRUE ELSE rnd = 0

abs(n) == IF n < 0 THEN -n ELSE n
Min(a, b) == IF a <= b THEN a ELSE b

\* end is 'inf' or an int; in Python 2 every int compares smaller than a str.
inf == [inf |-> TRUE]
bounded(n) == [inf |-> FALSE, n |-> n]
less(n, e) == e.inf \/ n < e.n

RECURSIVE sorted(_)
sorted(S) ==
    IF S = {} THEN <<>>
    ELSE LET m == CHOOSE x \in S : \A y \in S : x <= y
         IN  <<m>> \o sorted(S \ {m})

\* ZRANGEBYSCORE QUEUE lo hi LIMIT 0 num: both ends of the range inclusive.
zrangebyscore(q, lo, hi, num) ==
    LET all == sorted({i \in q : lo <= i /\ (hi.inf \/ i <= hi.n)})
    IN  SubSeq(all, 1, Min(num, Len(all)))

\* A variant of line 163 whose notice always carries 1.
limit_notice_one(w, n) == [t |-> "limit", which |-> w, n |-> 1]

\* What the worker pushes besides payloads.
limit_notice(w, n) == [t |-> "limit", which |-> w, n |-> n]
heartbeat == [t |-> "{}"]
close == [t |-> "<close>"]

\* A variant of lines 150-153 that counts every status as tossed.
scan_one_tossing(acc, id, data, w, rnd) == [acc EXCEPT !.tossed = @ + 1]

\* Lines 150-167: one turn of the loop over statuses.  acc holds the locals
\* the loop changes and the history that goes with them.
scan_one(acc, id, data, w, rnd) ==
    IF data.t = "None" THEN acc
    ELSE IF data.t # "json" THEN [acc EXCEPT !.raised = TRUE]
    ELSE
      LET result == loads(data)
          seen == [acc EXCEPT !.evaluated = @ \cup {id}]
          notify == acc.tossed_notified # acc.tossed
      IN  IF ~criteria(w, result, rnd) THEN seen
          ELSE IF acc.outgoing_backlog >= MAX_OUTGOING_BACKLOG
          THEN [seen EXCEPT !.tossed = @ + 1,
                            !.tossedSince = @ \cup {id}]
          ELSE [seen EXCEPT
                  !.last_sent_keepalive = FALSE,
                  !.pipeline = @ \o (IF notify
                                     THEN <<limit_notice(w, acc.tossed)>>
                                     ELSE <<>>) \o <<data>>,
                  !.tossed_notified = acc.tossed,
                  !.outgoing_backlog = @ + 1,
                  !.found_match = TRUE,
                  !.lastNotice =
                      IF notify
                      THEN [n |-> acc.tossed,
                            msgs |-> Cardinality(acc.tossedSince),
                            nth |-> IF @.nth = "none" THEN "first" ELSE "later"]
                      ELSE @,
                  !.tossedSince = IF notify THEN {} ELSE @]

RECURSIVE scan_batch(_, _, _, _, _, _)
scan_batch(acc, idseq, statuses, i, w, rnds) ==
    IF i > Len(idseq) \/ acc.raised THEN acc
    ELSE scan_batch(scan_one(acc, idseq[i], statuses[i], w, rnds[i]),
                    idseq, statuses, i + 1, w, rnds)

\* The values of random.randrange(10): 0, and one value for the others.
Draws == {0, 1}
draws(w, n) ==
    IF w = "gardenhose" THEN [1..n -> Draws] ELSE {[i \in 1..n |-> 0]}

\* any(results)
any(rs) == \E i \in 1..Len(rs) : rs[i] # 0

\* A variant of line 185 that asks for a full channel.
should_quit_full(lsk, llen) == lsk /\ llen >= MAX_OUTGOING_BACKLOG

\* Line 185.
should_quit(lsk, llen) == lsk /\ llen # 0

Running == {"scan", "fetch", "push", "keepalive"}
Stopped == {"closed", "exit", "exhausted", "quit", "ValueError"}

\* Lines 96-135: the worker starts.
W_Start ==
    /\ wpc = "start"
    /\ \E w \in Kinds, b \in (-MaxAbsBacklog)..MaxAbsBacklog :
         /\ which' = w
         /\ backlog' = b
         /\ IF ~has_criteria(w)
            THEN /\ chan' = Append(chan, close)
                 /\ wpc' = "closed"
                 /\ UNCHANGED <<now, end>>
            ELSE /\ end' = IF b < 0 THEN bounded(seq_id["src"]) ELSE inf
                 /\ now' = seq_id["src"] - abs(b)
                 /\ wpc' = "scan"
                 /\ UNCHANGED chan
    /\ UNCHANGED <<ingestVars, replVars, kpc, sent, tossed, tossed_notified,
                   last_sent_keepalive, found_match, ids, pipeline, results,
                   expired, evaluated, pushed, repushed, tossedSince,
                   lastNotice, cpc, gone>>

\* Lines 137-141 and 175-180: the loop condition and the range scan.
W_Scan ==
    /\ wpc = "scan"
    /\ IF ~(sent /\ less(now, end))
       THEN /\ wpc' = "exit"
            /\ UNCHANGED <<found_match, ids>>
       ELSE LET r == zrangebyscore(queue["src"], now, end, CHUNKSIZE)
            IN  /\ found_match' = FALSE
                /\ ids' = r
                /\ wpc' = IF r # <<>> THEN "fetch"
                          ELSE IF end.inf THEN "keepalive"
                          ELSE "exhausted"
    /\ UNCHANGED <<ingestVars, replVars, kpc, which, backlog, now, end, sent,
                   tossed, tossed_notified, last_sent_keepalive, pipeline,
                   results, expired, evaluated, pushed, repushed,
                   tossedSince, lastNotice, chanVars>>

\* Lines 143-170 and 173: the batch of GETs with LLEN, and the loop over the
\* statuses.  Without a match the pipeline is not executed and line 173
\* follows at once.
W_Fetch ==
    /\ wpc = "fetch"
    /\ \E rnds \in draws(which, Len(ids)) :
       LET statuses == [i \in 1..Len(ids) |-> message["src"][ids[i]]]
           acc0 == [tossed |-> tossed, tossed_notified |-> tossed_notified,
                    outgoing_backlog |-> Len(chan),
                    last_sent_keepalive |-> last_sent_keepalive,
                    found_match |-> FALSE, pipeline |-> <<>>,
                    raised |-> FALSE, evaluated |-> evaluated,
                    tossedSince |-> tossedSince,
                    lastNotice |-> lastNotice]
           acc == scan_batch(acc0, ids, statuses, 1, which, rnds)
       IN  /\ acc.tossed <= MaxTossed
           /\ tossed' = acc.tossed
           /\ tossed_notified' = acc.tossed_notified
           /\ last_sent_keepalive' = acc.last_sent_keepalive
           /\ found_match' = acc.found_match
           /\ pipeline' = acc.pipeline
           /\ evaluated' = acc.evaluated
           /\ tossedSince' = acc.tossedSince
           /\ lastNotice' = acc.lastNotice
           /\ IF acc.raised
              THEN /\ wpc' = "ValueError"
                   /\ UNCHANGED <<now, ids, expired>>
              ELSE IF acc.found_match
              THEN /\ expired' = FALSE
                   /\ wpc' = "push"
                   /\ UNCHANGED <<now, ids>>
              ELSE /\ now' = ids[Len(ids)]
                   /\ ids' = <<>>
                   /\ wpc' = "keepalive"
                   /\ UNCHANGED expired
           /\ gone' = IF gone = "deleted" /\ acc.found_match /\ ~acc.raised
                      THEN "trip"
                      ELSE gone
    /\ UNCHANGED <<ingestVars, replVars, kpc, which, backlog, end, sent,
                   results, pushed, repushed, chan, cpc>>

\* Lines 171-173: the pipeline of RPUSHes is not transactional, so it is
\* executed one command at a time; after the last one sent and now are set.
W_Push ==
    /\ wpc = "push"
    /\ LET item == Head(pipeline)
           list == Append(chan, item)
           res == Append(results, Len(list))
       IN  /\ chan' = list
           /\ pipeline' = Tail(pipeline)
           /\ pushed' = IF item.t = "json" THEN pushed \cup {item.id}
                        ELSE pushed
           /\ repushed' = IF item.t = "json" /\ item.id \in pushed
                          THEN repushed \cup {item.id}
                          ELSE repushed
           /\ IF Tail(pipeline) = <<>>
              THEN /\ sent' = any(res)
                   /\ results' = <<>>
                   /\ now' = ids[Len(ids)]
                   /\ ids' = <<>>
                   /\ wpc' = "keepalive"
                   /\ gone' = IF gone = "trip" THEN "after" ELSE gone
              ELSE /\ results' = res
                   /\ UNCHANGED <<sent, now, ids, wpc, gone>>
    /\ UNCHANGED <<ingestVars, replVars, kpc, which, backlog, end, tossed,
                   tossed_notified, last_sent_keepalive, found_match,
                   expired, evaluated, tossedSince, lastNotice, cpc>>

\* Lines 182-193: the keepalive check at the end of an iteration.
W_Keepalive ==
    /\ wpc = "keepalive"
    /\ IF ~found_match /\ expired
       THEN /\ expired' = FALSE
            /\ IF \/ should_quit(last_sent_keepalive, Len(chan))
                  \/ Len(chan) + 1 >= MAX_OUTGOING_BACKLOG
               THEN /\ chan' = <<>>
                    /\ wpc' = "quit"
                    /\ UNCHANGED last_sent_keepalive
               ELSE /\ chan' = Append(chan, heartbeat)
                    /\ last_sent_keepalive' = TRUE
                    /\ wpc' = "scan"
       ELSE /\ wpc' = "scan"
            /\ UNCHANGED <<expired, chan, last_sent_keepalive>>
    /\ UNCHANGED <<ingestVars, replVars, kpc, which, backlog, now, end, sent,
                   tossed, tossed_notified, found_match, ids, pipeline,
                   results, evaluated, pushed, repushed, tossedSince,
                   lastNotice, cpc, gone>>

\* time.time() advances past keepalive, which lines 134, 170 and 184 set to
\* KEEPALIVE_TIMEOUT after the clock reading of the moment.  The clock is
\* read back only at line 182, so the deadline passes there.
Tick ==
    /\ wpc = "keepalive"
    /\ ~expired
    /\ expired' = TRUE
    /\ UNCHANGED <<ingestVars, replVars, kpc, wpc, which, backlog, now, end,
                   sent, tossed, tossed_notified, last_sent_keepalive,
                   found_match, ids, pipeline, results, evaluated, pushed,
                   repushed, tossedSince, lastNotice, chanVars>>

(* ---- the consumer loop of spawn_worker_and_subscribe ------------------- *)
\* Lines 85-89: BLPOP returns an item.  A BLPOP that times out ends the loop,
\* which for the worker is a consumer that pops no more.
C_Pop ==
    /\ cpc = "blpop"
    /\ chan # <<>>
    /\ chan' = Tail(chan)
    /\ cpc' = IF Head(chan) = close THEN "done" ELSE "blpop"
    /\ UNCHANGED <<ingestVars, replVars, kpc, workerVars, gone>>

(* ---- the transport layer that owns the channel ------------------------- *)
\* The list named subscriber is deleted from outside while the worker runs
\* its loop (lines 137-193); the worker itself is not told.
X_Delete ==
    /\ wpc \in Running
    /\ gone = "no"
    /\ chan' = <<>>
    /\ gone' = "deleted"
    /\ UNCHANGED <<ingestVars, replVars, kpc, workerVars, cpc>>

(* ---- a trimmer at work -------------------------------------------------- *)
\* Between the worker's range scan (line 140) and its GETs (lines 143-146)
\* an id of the scan's result is trimmed: its entry leaves the Log Index and
\* its payload the Message Store, which is what lines 228-229 ask for.  It
\* is the case the comment at lines 151-152 speaks of.
X_Trim(id) ==
    /\ wpc = "fetch"
    /\ \E i \in 1..Len(ids) : ids[i] = id
    /\ message["src"][id] # None
    /\ queue' = [queue EXCEPT !["src"] = @ \ {id}]
    /\ message' = [message EXCEPT !["src"][id] = None]
    /\ UNCHANGED <<seq_id, ppc, pid, returned, posted, live, workerVars,
                   chanVars, replVars, kpc>>

(* ---- replicator -------------------------------------------------------- *)
\* The poll interval in milliseconds: .001 at lines 201 and 209, .1 at 206.
MIN_SLEEP == 1
MAX_SLEEP == 100

\* A variant of line 206 without the upper limit.
backoff_unbounded(sl) == 2 * sl

\* Line 206.
backoff(sl) == Min(MAX_SLEEP, 2 * sl)

\* Lines 200-202: then is the source's counter at the start.
R_Start ==
    /\ rpc = "start"
    /\ sleep' = MIN_SLEEP
    /\ then' = seq_id["src"]
    /\ rpc' = "poll"
    /\ UNCHANGED <<ingestVars, workerVars, chanVars, rnow, rstat, replicated,
                   rgot, kpc>>

\* Lines 204-209: one poll of the source's counter.
R_Poll ==
    /\ rpc = "poll"
    /\ rnow' = seq_id["src"]
    /\ IF rnow' = then
       THEN /\ sleep' = backoff(sleep)
            /\ rpc' = "poll"
       ELSE /\ sleep' = MIN_SLEEP
            /\ rpc' = "fetch"
    /\ UNCHANGED <<ingestVars, workerVars, chanVars, then, rstat, replicated,
                   rgot, kpc>>

\* Lines 213-215: the pipeline of GETs for then+1..now.
R_Fetch ==
    /\ rpc = "fetch"
    /\ rstat' = [i \in 1..(rnow - then) |-> message["src"][then + i]]
    /\ rpc' = "ingest"
    /\ UNCHANGED <<ingestVars, workerVars, chanVars, then, rnow, sleep,
                   replicated, rgot, kpc>>

\* Lines 215-217 with 53 and 60-64: one turn of the loop over izip, which
\* calls got_status(dest_conn, status, id); after the last turn then = now.
R_Ingest ==
    /\ rpc = "ingest"
    /\ LET id == rnow - Len(rstat) + 1
           status == Head(rstat)
           dumped == status
       IN  /\ queue' = [queue EXCEPT !["dst"] = zadd(queue["dst"], id)]
           /\ message' = [message EXCEPT
                            !["dst"] = set(message["dst"], id, dumped)]
           /\ replicated' = replicated \cup {id}
           /\ rgot' = [rgot EXCEPT ![id] = status]
    /\ rstat' = Tail(rstat)
    /\ IF Tail(rstat) = <<>>
       THEN /\ then' = rnow
            /\ rpc' = "poll"
       ELSE UNCHANGED <<then, rpc>>
    /\ UNCHANGED <<seq_id, ppc, pid, returned, posted, live, workerVars,
                   chanVars, rnow, sleep, kpc>>

(* ---- cleaner ----------------------------------------------------------- *)
\* Line 226: conn.zrange(0, -MAX_BACKLOG) passes 0 as the key and
\* -MAX_BACKLOG as the start index, and no end index.  zrange(name, start,
\* end) of the client needs all three, so the call raises TypeError before
\* any command is sent: lines 227-231 are not reached and the cleaner ends.
zrange_call(args) == IF Len(args) < 3 THEN "TypeError" ELSE "sent"

K_Pass ==
    /\ kpc = "loop"
    /\ kpc' = IF zrange_call(<<0, -MAX_BACKLOG>>) = "TypeError"
              THEN "TypeError"
              ELSE "loop"
    /\ UNCHANGED <<ingestVars, workerVars, chanVars, replVars>>

Init ==
    /\ rpc = "start"
    /\ then = 0
    /\ rnow = 0
    /\ sleep = MIN_SLEEP
    /\ rstat = <<>>
    /\ replicated = {}
    /\ rgot = [i \in Ids |-> None]
    /\ kpc = "loop"
    /\ wpc = "start"
    /\ which = ""
    /\ backlog = 0
    /\ now = 0
    /\ end = inf
    /\ sent = TRUE
    /\ tossed = 0
    /\ tossed_notified = 0
    /\ last_sent_keepalive = FALSE
    /\ found_match = FALSE
    /\ ids = <<>>
    /\ pipeline = <<>>
    /\ results = <<>>
    /\ expired = FALSE
    /\ chan = <<>>
    /\ cpc = "blpop"
    /\ gone = "no"
    /\ evaluated = {}
    /\ pushed = {}
    /\ repushed = {}
    /\ tossedSince = {}
    /\ lastNotice = [n |-> 0, msgs |-> 0, nth |-> "none"]
    /\ seq_id = [s \in Stores |-> 0]
    /\ queue = [s \in Stores |-> {}]
    /\ message = [s \in Stores |-> [i \in Ids |-> None]]
    /\ ppc = [p \in Producers |-> "idle"]
    /\ pid = [p \in Producers |-> 0]
    /\ returned = {}
    /\ posted = [i \in Ids |-> None]
    /\ live = {}

WorkerNext == W_Start \/ W_Scan \/ W_Fetch \/ W_Push \/ W_Keepalive

Next ==
    \/ \E p \in Producers : Post_Incr(p)
    \/ \E p \in Producers : Post_Commit(p)
    \/ W_Start
    \/ W_Scan
    \/ W_Fetch
    \/ W_Push
    \/ W_Keepalive
    \/ Tick
    \/ C_Pop

Spec == Init /\ [][Next]_vars

\* The daemons of a source store beside its producers.
DaemonNext ==
    \/ \E p \in Producers : Post_Incr(p)
    \/ \E p \in Producers : Post_Commit(p)
    \/ R_Start
    \/ R_Poll
    \/ R_Fetch
    \/ R_Ingest
    \/ K_Pass

SpecDaemons == Init /\ [][DaemonNext]_vars

\* The message log, one worker and its consumer, and a transport layer that
\* may delete the worker's channel.
GoneNext == Next \/ X_Delete

SpecGone == Init /\ [][GoneNext]_vars

\* The message log, one worker whose consumer does not pop, and a trimmer
\* that removes ids the worker has just scanned.
TrimNext ==
    \/ \E p \in Producers : Post_Incr(p)
    \/ \E p \in Producers : Post_Commit(p)
    \/ WorkerNext
    \/ Tick
    \/ \E id \in Ids : X_Trim(id)

SpecTrim == Init /\ [][TrimNext]_vars

\* The worker is a running greenlet, the consumer loop keeps calling BLPOP and
\* the clock keeps advancing.  Producers are clients of the store: nothing
\* makes a call that took its id at line 55 reach line 63.
FairSpec ==
    /\ Spec
    /\ WF_vars(WorkerNext)
    /\ WF_vars(C_Pop)
    /\ SF_vars(Tick)

(* ======================================================================= *)
(* The claims                                                              *)
(* ======================================================================= *)

\* C1: the ids that calls of got_status(id=None) return on one store are
\* unique, also when producers interleave, and a call that starts after
\* another has returned gets a strictly larger id than that one.
C1_IdsUniqueAndIncreasing ==
    /\ [](\A p \in Producers : ppc[p] = "commit" =>
            /\ pid[p] \notin returned
            /\ \A q \in Producers \ {p} :
                  ppc[q] = "commit" => pid[q] # pid[p])
    /\ [][\A p \in Producers :
            (ppc[p] = "idle" /\ ppc'[p] = "commit") =>
                \A r \in returned : r < pid'[p]]_vars

\* A call has returned and a call started after it holds a larger id.
C1_Witness ==
    /\ Cardinality(returned) >= 1
    /\ \E p \in Producers : ppc[p] = "commit" /\ pid[p] > Max(returned)

\* C2: got_status commits the index entry and the payload in one step: with
\* no trimmer and no deletion, every id in the Log Index has its payload in
\* the Message Store, and once a call has returned id, GET of the id's key
\* gives exactly the payload the call dumped.
C2_CommitAtomic ==
    /\ \A id \in queue["src"] : message["src"][id] # None
    /\ \A id \in returned :
          id \in queue["src"] /\ message["src"][id] = posted[id]

\* A reader is about to fetch the payloads of ids that calls have returned.
C2_Witness ==
    /\ wpc = "fetch"
    /\ ids # <<>>
    /\ \A i \in 1..Len(ids) : ids[i] \in returned

\* C3: insertion order and numeric order of the ids coincide: no id becomes
\* visible in the Log Index after a larger id is visible there.
C3_InsertionOrderIsIdOrder ==
    [][\A i \in queue'["src"] \ queue["src"] :
         \A j \in queue["src"] : j < i]_vars

\* Zero payload enqueues while the channel is at or above capacity.
C4_NoPayloadWhileFull ==
    [][(wpc = "fetch" /\ Len(chan) >= MAX_OUTGOING_BACKLOG) =>
          (pipeline' = <<>> /\ ~found_match')]_vars

\* The first limit notice of a worker that matches every message carries the
\* number of messages tossed.
C4_NoticeCountsTossed ==
    (which = "firehose" /\ lastNotice.nth = "first") =>
        lastNotice.n = lastNotice.msgs

\* A limit notice is enqueued immediately before a payload.
C4_NoticeBeforePayload ==
    /\ \A i \in 1..Len(pipeline) : pipeline[i].t = "limit" =>
          (i < Len(pipeline) /\ pipeline[i + 1].t = "json")
    /\ \A i \in 1..Len(chan) : chan[i].t = "limit" =>
          IF i < Len(chan) THEN chan[i + 1].t = "json"
          ELSE wpc = "push" /\ Head(pipeline).t = "json"

\* No notice is enqueued unless messages were tossed since the last one.
C4_NoticeOnlyAfterToss ==
    /\ lastNotice.nth # "none" => lastNotice.msgs > 0
    /\ \A i \in 1..Len(pipeline) : pipeline[i].t = "limit" =>
          \A j \in 1..Len(pipeline) : pipeline[j].t = "limit" => j = i

\* C4: backpressure: while the channel is at or above MAX_OUTGOING_BACKLOG,
\* matching messages are tossed and no payload is enqueued; the N messages
\* tossed give one limit notice of value N, enqueued immediately before the
\* first payload delivered after the channel drained, and no further notice
\* without further tossing.
C4_Backpressure ==
    /\ C4_NoPayloadWhileFull
    /\ []C4_NoticeCountsTossed
    /\ []C4_NoticeBeforePayload
    /\ []C4_NoticeOnlyAfterToss

\* C5: keepalive termination: when a window expires with no match since the
\* heartbeat of the previous window and that heartbeat still unread at the
\* tail of the channel, the worker deletes the channel and stops; a worker
\* that stopped this way pushes nothing to the channel afterwards.
C5_KeepaliveTermination ==
    /\ [][(/\ wpc = "keepalive"
           /\ ~found_match
           /\ expired
           /\ chan # <<>>
           /\ chan[Len(chan)] = heartbeat
           /\ wpc' # wpc) => (wpc' = "quit" /\ chan' = <<>>)]_vars
    /\ [][wpc = "quit" => (wpc' = "quit" /\ chan' = <<>>)]_vars

\* The worker quit over an unread heartbeat and not over a full channel.
C5_Witness ==
    /\ wpc = "quit"
    /\ last_sent_keepalive
    /\ tossed = 0

\* C6: bounded replay window: a worker started with backlog = -k that matches
\* every message and never found the channel full enqueues at most k
\* payloads, all of ids among the k most recent ones at its start, none of
\* an id above the counter read at its start.
C6_ReplayWindow ==
    (wpc # "start" /\ which = "firehose" /\ backlog < 0 /\ tossed = 0) =>
        /\ Cardinality(pushed) + Cardinality(repushed) <= -backlog
        /\ \A id \in pushed : end.n + backlog < id /\ id <= end.n

\* C7: a worker started with backlog < 0 eventually leaves its main loop,
\* also when the newest id of its window has no entry in the Log Index.
C7_BoundedReplayTerminates ==
    (wpc \in Running /\ backlog < 0) ~> (wpc \in Stopped)

\* C8: the scan position of a tailing worker (backlog >= 0) never moves past
\* a message committed after the worker started that it has not evaluated.
C8_TailingSkipsNothing ==
    (wpc \in Running /\ backlog >= 0) =>
        \A id \in live : id < now => id \in evaluated

\* C9: retention: when a pass of the cleaner ends, the Log Index holds at
\* most MAX_BACKLOG entries and every id the pass took out of the Log Index
\* has no payload in the Message Store.
C9_Retention ==
    [][(kpc = "loop" /\ kpc' # kpc) =>
          /\ Cardinality(queue'["src"]) <= MAX_BACKLOG
          /\ \A id \in queue["src"] \ queue'["src"] :
                message'["src"][id] = None]_vars

\* C10: replication fidelity: every id the replicator re-ingested is in the
\* Log Index of the destination, GET of its key on the destination gives
\* what GET gave on the source when the replicator fetched it, and the
\* replicator takes no fresh id from the destination's counter.
C10_ReplicationFidelity ==
    /\ \A id \in replicated :
          id \in queue["dst"] /\ message["dst"][id] = rgot[id]
    /\ seq_id["dst"] = 0

\* A step of the replicator's poll: lines 204-209 ran.
C11_Polled == rpc = "poll" /\ (rpc' # rpc \/ sleep' # sleep)

\* C11 as stated: the poll interval is reset to the minimum by every poll
\* that sees the source counter changed, is doubled by every poll that sees
\* it unchanged, and always lies between the minimum and the maximum.
C11_BackoffDoubles ==
    /\ [](MIN_SLEEP <= sleep /\ sleep <= MAX_SLEEP)
    /\ [][C11_Polled =>
            IF seq_id["src"] = then
            THEN sleep' = 2 * sleep
            ELSE sleep' = MIN_SLEEP]_vars

\* C11, amended: the poll interval is reset to the minimum by every poll
\* that sees the source counter changed, is set to the smaller of its double
\* and the maximum by every poll that sees it unchanged, and always lies
\* between the minimum and the maximum.
C11_BackoffDoublesToMax ==
    /\ [](MIN_SLEEP <= sleep /\ sleep <= MAX_SLEEP)
    /\ [][C11_Polled =>
            IF seq_id["src"] = then
            THEN sleep' = Min(MAX_SLEEP, 2 * sleep)
            ELSE sleep' = MIN_SLEEP]_vars

\* The replicator has re-ingested an id, which reset the interval, and the
\* interval has grown to the maximum since.
C11_Witness ==
    /\ rpc = "poll"
    /\ sleep = MAX_SLEEP
    /\ replicated # {}

\* C12: a worker started with a kind that is none of the listed ones pushes
\* one item, the close sentinel, and terminates: it has read neither the
\* counter nor the Log Index nor a payload, and it pushes nothing else.
C12_UnknownKindCloses ==
    /\ [][(wpc = "start" /\ wpc' # wpc /\ which' = "unknown") =>
            (wpc' = "closed" /\ chan' = Append(chan, close))]_vars
    /\ [][wpc = "closed" =>
            (wpc' = "closed" /\ Len(chan') <= Len(chan))]_vars
    /\ [](which = "unknown" =>
            /\ now = 0 /\ end = inf
            /\ ids = <<>> /\ evaluated = {}
            /\ pipeline = <<>> /\ pushed = {})

\* A worker of an unknown kind has stopped, the close sentinel is the one
\* item of its channel, and the log holds messages it could have read.
C12_Witness ==
    /\ wpc = "closed"
    /\ which = "unknown"
    /\ chan = <<close>>
    /\ queue["src"] # {}

\* C13: after the channel was deleted from outside, the worker's next
\* pipeline of RPUSHes tells it so: when that pipeline has run, sent is
\* false, the worker leaves its loop, and it pushes to the channel no more.
C13_ChannelGoneStops ==
    /\ [](gone = "after" => (~sent /\ wpc \notin {"fetch", "push"}))
    /\ [][gone = "after" => Len(chan') <= Len(chan)]_vars

\* C14: with a consumer that only pops, the outgoing channel never holds
\* more than MAX_OUTGOING_BACKLOG items, whatever the worker pushed.
C14_ChannelBounded == Len(chan) <= MAX_OUTGOING_BACKLOG

\* The n numerically largest elements of S.
C15_Newest(S, n) == {x \in S : Cardinality({y \in S : y > x}) < n}

\* C15: a pass of the cleaner on a Log Index of MAX_BACKLOG entries or more
\* leaves exactly the MAX_BACKLOG largest ids, each with its payload; on a
\* smaller index it removes nothing.
C15_TrimKeepsNewest ==
    [][(kpc = "loop" /\ kpc' # kpc) =>
          IF Cardinality(queue["src"]) >= MAX_BACKLOG
          THEN /\ queue'["src"] = C15_Newest(queue["src"], MAX_BACKLOG)
               /\ \A id \in queue'["src"] : message'["src"][id] # None
          ELSE /\ queue'["src"] = queue["src"]
               /\ message'["src"] = message["src"]]_vars

\* The positions in ids of the ids whose payload is absent.
C16_Absent == {i \in 1..Len(ids) : message["src"][ids[i]] = None}

\* C16: when the GETs of a batch find ids without a payload, the worker
\* does not fail; it enqueues nothing for such an id, does not pass it to
\* the criteria and does not count it as tossed; a batch of such ids alone
\* changes neither tossed nor the keepalive state; and the scan position
\* moves to the last id of the batch all the same.
C16_AbsentPayloadSkipped ==
    /\ [][(wpc = "fetch" /\ wpc' # wpc /\ C16_Absent # {}) =>
            /\ wpc' \in {"push", "keepalive"}
            /\ \A i \in C16_Absent :
                  /\ ids[i] \notin evaluated' \ evaluated
                  /\ \A k \in 1..Len(pipeline') :
                        pipeline'[k].t = "json" => pipeline'[k].id # ids[i]
            /\ tossed' - tossed <= Len(ids) - Cardinality(C16_Absent)
            /\ C16_Absent = 1..Len(ids) =>
                  /\ pipeline' = <<>> /\ ~found_match'
                  /\ tossed' = tossed
                  /\ tossed_notified' = tossed_notified
                  /\ last_sent_keepalive' = last_sent_keepalive
                  /\ expired' = expired
            /\ wpc' = "keepalive" => now' = ids[Len(ids)]]_vars
    /\ [][(wpc = "push" /\ wpc' # wpc) =>
            (wpc' = "keepalive" /\ now' = ids[Len(ids)])]_vars

\* The worker has skipped the first id of a batch, whose payload is absent,
\* and is about to push the payload of the second.
C16_Witness ==
    /\ wpc = "push"
    /\ Len(ids) = 2
    /\ C16_Absent = {1}
    /\ Len(pipeline) = 1
    /\ pipeline[1].t = "json"
    /\ pipeline[1].id = ids[2]

\* C17: the replicator skips an id whose payload was absent when it fetched
\* it, and every id in the Log Index of the destination has a payload
\* there, one that existed in the source.
C17_ReplicatorSkipsAbsent ==
    /\ \A id \in replicated : rgot[id] = None => id \notin queue["dst"]
    /\ \A id \in queue["dst"] :
          /\ message["dst"][id] # None
          /\ \E j \in Ids : message["dst"][id] = posted[j]

\* C18 as stated: a limit notice carries the number of messages tossed
\* since the previous notice of the worker (since its start for the first).
C18_NoticeCountsSinceLast ==
    [][wpc = "fetch" =>
         \A k \in 1..Len(pipeline') :
             pipeline'[k].t = "limit" =>
                 pipeline'[k].n = tossed - tossed_notified]_vars

\* C18, amended: a limit notice carries the worker's tossed counter, the
\* number of times it has dropped a matching message since it started;
\* tossed_notified then equals that count.
C18_NoticeCountsSinceStart ==
    [][wpc = "fetch" =>
         \A k \in 1..Len(pipeline') :
             pipeline'[k].t = "limit" =>
                 /\ pipeline'[k].n = tossed
                 /\ tossed_notified' = tossed]_vars

\* The worker is about to push its second limit notice, after a second
\* period of backpressure.
C18_Witness ==
    /\ wpc = "push"
    /\ lastNotice.nth = "later"
    /\ Head(pipeline).t = "limit"
    /\ Head(pipeline).n = 2

\* C19: the worker pushes the payload of no id twice, and the ids of the
\* payloads in the channel are strictly increasing.
C19_NoDuplicatePayload ==
    /\ repushed = {}
    /\ \A i, j \in 1..Len(chan) :
          (i < j /\ chan[i].t = "json" /\ chan[j].t = "json") =>
              chan[i].id < chan[j].id

\* C20: in every store the id counter is at least as large as every id in
\* the store's Log Index.
C20_CounterCoversIndex ==
    \A s \in Stores : \A id \in queue[s] : id <= seq_id[s]

====
